---- MODULE Spec2Model ----
(***************************************************************************)
(* Microsoft 365 roadmap MCP server: the OData filter sanitizer, the       *)
(* in-memory result cache, the upstream fetcher with its timeout, the      *)
(* eight tool handlers, the metrics and the operations routes, as a state  *)
(* machine; and the original server's handlers, to compare the two.        *)
(*                                                                         *)
(* Strings are sequences of one-character strings, so that the sanitizer,  *)
(* the filter builders and the cache keys work on the characters.          *)
(***************************************************************************)
EXTENDS Integers, Sequences, FiniteSets, TLC

VARIABLES
    cache,            \* the Map<string, CacheEntry>, in insertion order
    now,              \* Date.now(), in milliseconds
    requestCounter,   \* number of tool calls received so far
    calls,            \* per connection slot: the tool call being served
    expr,             \* sanitizer harness: the expression under test
    sanitized,        \* sanitizer harness: the outcome of sanitizing expr
    handlerCall,      \* handler harness: tool, arguments and fetch outcome
    handlerResult,    \* handler harness: what the handler returned
    metrics,          \* the metrics object: requests, tools, apiCalls
    reply,            \* the last response of an operations route
    walk              \* a client that pages through get_roadmap_items

server == <<cache, now, requestCounter, calls, metrics, reply>>
harness == <<expr, sanitized, handlerCall, handlerResult, walk>>
vars == <<cache, now, requestCounter, calls, expr, sanitized, handlerCall, handlerResult,
          metrics, reply, walk>>

(***************************************************************************)
(* Program constants                                                       *)
(***************************************************************************)
API_TIMEOUT_MS == 30000
MAX_CACHE_AGE_MS == 5 * 60 * 1000
MAX_RESULTS_LIMIT == 1000
MAX_CACHE_ENTRIES == 50

(***************************************************************************)
(* Bounds of the model                                                     *)
(***************************************************************************)
NumSlots == 2         \* tool calls that can be in flight together
MaxRequests == 2      \* tool calls received in one run of Spec
NumBodies == 2        \* response bodies the upstream chooses from
HorizonTicks == 1     \* timeout periods that pass in one run of Spec
MaxTtlRequests == 3   \* tool calls received in one run of SpecTtl
TtlSlackTicks == 1    \* timeout periods that pass beyond the cache age in SpecTtl
FillExtra == 6        \* tool calls made after the cache is full in SpecFill
FillOverlap == 0      \* tool calls before the cache is full that the second client sees
MaxTokens == 3        \* tokens concatenated into a sanitizer input
MaxTotal == 3         \* longest fetched sequence the handler harness draws
MaxOpsCalls == 3      \* tool calls received in one run of SpecOps
MaxSharedCalls == 4   \* tool calls received in one run of SpecShared

(***************************************************************************)
(* Strings                                                                 *)
(***************************************************************************)
UpperChars == <<"A","B","C","D","E","F","G","H","I","J","K","L","M",
                "N","O","P","Q","R","S","T","U","V","W","X","Y","Z">>
LowerChars == <<"a","b","c","d","e","f","g","h","i","j","k","l","m",
                "n","o","p","q","r","s","t","u","v","w","x","y","z">>
DigitChars == <<"0","1","2","3","4","5","6","7","8","9">>

Range(s) == {s[i] : i \in DOMAIN s}

\* String.prototype.toLowerCase, one character
LowerOf == [c \in Range(UpperChars) |->
              LowerChars[CHOOSE j \in DOMAIN UpperChars : UpperChars[j] = c]]

ToLowerChar(c) == IF c \in DOMAIN LowerOf THEN LowerOf[c] ELSE c

ToLowerCase(s) == [i \in DOMAIN s |-> ToLowerChar(s[i])]

\* the regular expression class \w
WordChars == Range(UpperChars) \cup Range(LowerChars) \cup Range(DigitChars) \cup {"_"}

IsWordChar(c) == c \in WordChars

\* white space removed by String.prototype.trim
IsSpace(c) == c \in {" ", "\t", "\n"}

\* String.prototype.trim
Trim(s) ==
    IF \A i \in DOMAIN s : IsSpace(s[i]) THEN <<>>
    ELSE LET first == CHOOSE i \in DOMAIN s :
                        /\ ~IsSpace(s[i])
                        /\ \A j \in 1..(i-1) : IsSpace(s[j])
             last  == CHOOSE i \in DOMAIN s :
                        /\ ~IsSpace(s[i])
                        /\ \A j \in (i+1)..Len(s) : IsSpace(s[j])
         IN  SubSeq(s, first, last)

\* s.replace(/[;\\]/g, ''): every semicolon and backslash removed
StripDangerousChars(s) == SelectSeq(s, LAMBDA c : c \notin {";", "\\"})

\* Number.prototype.toString for a natural number
RECURSIVE ToDigits(_)
ToDigits(n) ==
    IF n < 10 THEN <<DigitChars[n + 1]>>
    ELSE ToDigits(n \div 10) \o <<DigitChars[(n % 10) + 1]>>

(***************************************************************************)
(* sanitizeODataFilter                                                     *)
(***************************************************************************)
\* the alternatives of dangerousPatterns
DangerousKeywords ==
    { <<"d","r","o","p">>,
      <<"d","e","l","e","t","e">>,
      <<"i","n","s","e","r","t">>,
      <<"u","p","d","a","t","e">>,
      <<"e","x","e","c">>,
      <<"e","x","e","c","u","t","e">>,
      <<"s","c","r","i","p","t">>,
      <<"j","a","v","a","s","c","r","i","p","t">> }

\* the assertion \b at the gap before position i (1..Len(s)+1)
WordBoundaryAt(s, i) ==
    LET before == (i > 1) /\ IsWordChar(s[i-1])
        after  == (i <= Len(s)) /\ IsWordChar(s[i])
    IN  before # after

\* /\b(kw)\b/i matches s starting at position i
KeywordMatchesAt(s, kw, i) ==
    /\ i + Len(kw) - 1 <= Len(s)
    /\ \A k \in 1..Len(kw) : ToLowerChar(s[i + k - 1]) = kw[k]
    /\ WordBoundaryAt(s, i)
    /\ WordBoundaryAt(s, i + Len(kw))

\* a test without the /i flag, for comparison
CaseSensitiveTest(s) ==
    \E i \in 1..Len(s) : \E kw \in DangerousKeywords :
        /\ i + Len(kw) - 1 <= Len(s)
        /\ \A k \in 1..Len(kw) : s[i + k - 1] = kw[k]
        /\ WordBoundaryAt(s, i)
        /\ WordBoundaryAt(s, i + Len(kw))

\* dangerousPatterns.test(s)
DangerousPatternsTest(s) ==
    \E i \in 1..Len(s) : \E kw \in DangerousKeywords : KeywordMatchesAt(s, kw, i)

InvalidFilterMessage == "Invalid filter: potentially dangerous keywords detected"

\* the outcome of a call: a returned value or a thrown Error
Returned(v) == [threw |-> FALSE, value |-> v]
Thrown(msg) == [threw |-> TRUE, message |-> msg]

sanitizeODataFilter(filter) ==
    LET s == Trim(StripDangerousChars(filter))
    IN  IF DangerousPatternsTest(s) THEN Thrown(InvalidFilterMessage)
        ELSE Returned(s)

(***************************************************************************)
(* JavaScript values                                                       *)
(***************************************************************************)
\* an optional string: undefined, or a string
Undefined == [defined |-> FALSE]
Some(s) == [defined |-> TRUE, str |-> s]

\* truthiness of an optional string: undefined and '' are falsy
Truthy(opt) == opt.defined /\ Len(opt.str) > 0

\* the values the decoded body's field `value` can hold
ArrayValue(elems) == [kind |-> "array", elems |-> elems]
StringValue(chars) == [kind |-> "string", chars |-> chars]
NumberValue == [kind |-> "number"]
AbsentValue == [kind |-> "absent"]     \* undefined, null, 0, '' or false
NoValue == [kind |-> "none"]           \* a variable not assigned yet

\* truthiness of a decoded value
TruthyValue(v) == v.kind \in {"array", "number"} \/ (v.kind = "string" /\ Len(v.chars) > 0)

Min(a, b) == IF a < b THEN a ELSE b
Max(a, b) == IF a > b THEN a ELSE b

\* Array.prototype.slice / String.prototype.slice on a sequence, integer bounds
SliceSeq(s, start, end) ==
    LET len  == Len(s)
        from == IF start < 0 THEN Max(len + start, 0) ELSE Min(start, len)
        to   == IF end < 0 THEN Max(len + end, 0) ELSE Min(end, len)
    IN  SubSeq(s, from + 1, to)

\* String.prototype.includes
Includes(s, t) ==
    \E i \in 0..(Len(s) - Len(t)) : \A k \in 1..Len(t) : s[i + k] = t[k]

\* product.replace(/'/g, "''")
RECURSIVE EscapeQuotes(_)
EscapeQuotes(s) ==
    IF s = <<>> THEN <<>>
    ELSE IF Len(s) = 1 THEN (IF s[1] = "'" THEN <<"'", "'">> ELSE s)
    ELSE LET half == Len(s) \div 2
         IN  EscapeQuotes(SubSeq(s, 1, half)) \o EscapeQuotes(SubSeq(s, half + 1, Len(s)))

(***************************************************************************)
(* The cache: a Map in insertion order                                     *)
(***************************************************************************)
CacheKeys(c) == [i \in DOMAIN c |-> c[i].key]

CacheHas(c, k) == \E i \in DOMAIN c : c[i].key = k

\* cache.get(k), for a key that is present
CacheGet(c, k) == c[CHOOSE i \in DOMAIN c : c[i].key = k]

\* a set that leaves a present key's entry as it is, for comparison
KeepsFirst(c, k, e) ==
    IF \E i \in DOMAIN c : c[i].key = k THEN c ELSE Append(c, e)

\* a set that adds an entry without looking for the key, for comparison
AppendsAlways(c, k, e) == Append(c, e)

\* a set that moves a present key to the last place, for comparison
MovesToEnd(c, k, e) == Append(SelectSeq(c, LAMBDA x : x.key # k), e)

\* cache.set(k, e): a present key keeps its place, a new key goes last
CacheSet(c, k, e) ==
    IF CacheHas(c, k)
    THEN [i \in DOMAIN c |-> IF c[i].key = k THEN e ELSE c[i]]
    ELSE Append(c, e)

\* cache.delete(k)
CacheDelete(c, k) == SelectSeq(c, LAMBDA e : e.key # k)

\* a cleanup that deletes the last key, for comparison
EvictsNewest(c) ==
    IF Len(c) > MAX_CACHE_ENTRIES THEN CacheDelete(c, CacheKeys(c)[Len(c)]) ELSE c

\* no cleanup at all, for comparison
NeverEvicts(c) == c

\* the cleanup after cache.set: above 50 entries, the first key is deleted
CacheCleanup(c) ==
    IF Len(c) > MAX_CACHE_ENTRIES THEN CacheDelete(c, CacheKeys(c)[1]) ELSE c

\* an entry counted as fresh up to and including the maximum age, for comparison
FreshAtTtl(c, k, t) ==
    CacheHas(c, k) /\ (t - CacheGet(c, k).timestamp) <= MAX_CACHE_AGE_MS

\* `cached && (Date.now() - cached.timestamp) < MAX_CACHE_AGE_MS`
CacheFresh(c, k, t) ==
    CacheHas(c, k) /\ (t - CacheGet(c, k).timestamp) < MAX_CACHE_AGE_MS

(***************************************************************************)
(* fetchRoadmapItemsV2, up to its first await                              *)
(***************************************************************************)
SentinelAll == <<"a","l","l">>

\* const sanitizedFilter = filter ? sanitizeODataFilter(filter) : undefined
SanitizedFilter(filter) ==
    IF Truthy(filter)
    THEN LET r == sanitizeODataFilter(filter.str)
         IN  IF r.threw THEN r ELSE Returned(Some(r.value))
    ELSE Returned(Undefined)

\* const cacheKey = sanitizedFilter || 'all'
CacheKeyOf(sf) == IF Truthy(sf) THEN sf.str ELSE SentinelAll

\* the request sent upstream: the $filter parameter, when there is one
RequestUrl(sf) == IF Truthy(sf) THEN Some(sf.str) ELSE Undefined

(***************************************************************************)
(* fetchRoadmapItemsV2, after the response                                 *)
(***************************************************************************)
\* response bodies
InvalidJson == [json |-> "invalid"]
NullJson == [json |-> "null"]
ObjectJson(v) == [json |-> "object", value |-> v]

\* const data = await response.json(); const items = data.value || []
DecodeItems(body) ==
    IF body.json = "invalid" THEN Thrown("Unexpected token in JSON")
    ELSE IF body.json = "null" THEN Thrown("Cannot read properties of null")
    ELSE Returned(IF TruthyValue(body.value) THEN body.value ELSE ArrayValue(<<>>))

CacheEntry(k, items, t, sf) ==
    [key |-> k, data |-> items, timestamp |-> t, filter |-> sf]

\* cache.set(...) followed by the cleanup
StoreResult(c, k, items, t, sf) ==
    CacheCleanup(CacheSet(c, k, CacheEntry(k, items, t, sf)))

(***************************************************************************)
(* Tool handlers                                                           *)
(***************************************************************************)
Tools ==
    { "get_roadmap_items", "search_roadmap", "get_roadmap_item",
      "filter_by_product", "filter_by_release_phase", "filter_by_status",
      "filter_by_date", "filter_roadmap" }

\* a destructured argument with its default
Arg(args, name, default) == IF name \in DOMAIN args THEN args[name] ELSE default

IdEqPrefix == <<"i","d"," ","e","q"," ">>
ProductPrefix ==
    <<"p","r","o","d","u","c","t","s","/","a","n","y","(","p",":","p"," ","e","q"," ","'">>
ReleaseRingPrefix ==
    <<"r","e","l","e","a","s","e","R","i","n","g","s","/","a","n","y","(","r",":","r",
      " ","e","q"," ","'">>
AnySuffix == <<"'",")">>
StatusPrefix == <<"s","t","a","t","u","s"," ","e","q"," ","'">>
GaDateField ==
    <<"g","e","n","e","r","a","l","A","v","a","i","l","a","b","i","l","i","t","y",
      "D","a","t","e">>
PreviewDateField ==
    <<"p","r","e","v","i","e","w","A","v","a","i","l","a","b","i","l","i","t","y",
      "D","a","t","e">>
EqQuote == <<" ","e","q"," ","'">>
Quote == <<"'">>

\* the argument each handler passes to fetchRoadmapItemsV2
BuildFilter(tool, args) ==
    CASE tool = "get_roadmap_items" -> Arg(args, "filter", Undefined)
      [] tool = "search_roadmap" -> Undefined
      [] tool = "get_roadmap_item" -> Some(IdEqPrefix \o args.id)
      [] tool = "filter_by_product" ->
            Some(ProductPrefix \o EscapeQuotes(args.product) \o AnySuffix)
      [] tool = "filter_by_release_phase" ->
            Some(ReleaseRingPrefix \o args.phase \o AnySuffix)
      [] tool = "filter_by_status" -> Some(StatusPrefix \o args.status \o Quote)
      [] tool = "filter_by_date" ->
            Some((IF Arg(args, "dateType", "generalAvailability") = "generalAvailability"
                  THEN GaDateField ELSE PreviewDateField)
                 \o EqQuote \o args.date \o Quote)
      [] tool = "filter_roadmap" -> Some(args.filter)

\* what a handler returns
Success(body) == [isError |-> FALSE, body |-> body]
ErrorText(msg) == [isError |-> TRUE, body |-> [message |-> msg]]
ErrorStructured(msg, data) ==
    [isError |-> TRUE, body |-> [code |-> -32000, message |-> msg, data |-> data]]
NotFound(id) ==
    [isError |-> TRUE, body |-> [message |-> "No roadmap item found with ID", id |-> id]]
\* an exception that leaves the handler
Uncaught(msg) == [uncaught |-> TRUE, message |-> msg]
NoResult == [pending |-> TRUE]

NotAFunction == "items.slice is not a function"

\* items.slice(start, end): arrays and strings have it
Sliceable(items) == items.kind \in {"array", "string"}
Elems(items) == IF items.kind = "array" THEN items.elems ELSE items.chars
Slice(items, start, end) ==
    IF items.kind = "array" THEN ArrayValue(SliceSeq(items.elems, start, end))
    ELSE StringValue(SliceSeq(items.chars, start, end))

\* item.title?.toLowerCase().includes(searchTerm) || item.description?...
ItemMatches(item, searchTerm) ==
    \/ item.title.defined /\ Includes(ToLowerCase(item.title.str), searchTerm)
    \/ item.description.defined /\ Includes(ToLowerCase(item.description.str), searchTerm)

\* get_roadmap_items reporting more when the page ends at the last item, for
\* comparison
HasMoreAtEnd(args, items) ==
    LET limit == Arg(args, "limit", 100)
        offset == Arg(args, "offset", 0)
        validatedLimit == Min(limit, MAX_RESULTS_LIMIT)
        validatedOffset == Max(0, offset)
    IN  IF ~Sliceable(items) THEN Thrown(NotAFunction)
        ELSE LET paginatedItems ==
                    Slice(items, validatedOffset, validatedOffset + validatedLimit)
             IN  Returned(Success(
                    [total |-> Len(Elems(items)),
                     returned |-> Len(Elems(paginatedItems)),
                     offset |-> validatedOffset,
                     limit |-> validatedLimit,
                     hasMore |-> (validatedOffset + validatedLimit) <= Len(Elems(items)),
                     items |-> paginatedItems]))

\* get_roadmap_items slicing to the limit instead of offset + limit, for comparison
SlicesToLimit(args, items) ==
    LET limit == Arg(args, "limit", 100)
        offset == Arg(args, "offset", 0)
        validatedLimit == Min(limit, MAX_RESULTS_LIMIT)
        validatedOffset == Max(0, offset)
    IN  IF ~Sliceable(items) THEN Thrown(NotAFunction)
        ELSE LET paginatedItems == Slice(items, validatedOffset, validatedLimit)
             IN  Returned(Success(
                    [total |-> Len(Elems(items)),
                     returned |-> Len(Elems(paginatedItems)),
                     offset |-> validatedOffset,
                     limit |-> validatedLimit,
                     hasMore |-> (validatedOffset + validatedLimit) < Len(Elems(items)),
                     items |-> paginatedItems]))

\* the try block of get_roadmap_items, after the fetch returned `items`
GetRoadmapItemsBody(args, items) ==
    LET limit == Arg(args, "limit", 100)
        offset == Arg(args, "offset", 0)
        validatedLimit == Min(limit, MAX_RESULTS_LIMIT)
        validatedOffset == Max(0, offset)
    IN  IF ~Sliceable(items) THEN Thrown(NotAFunction)
        ELSE LET paginatedItems ==
                    Slice(items, validatedOffset, validatedOffset + validatedLimit)
             IN  Returned(Success(
                    [total |-> Len(Elems(items)),
                     returned |-> Len(Elems(paginatedItems)),
                     offset |-> validatedOffset,
                     limit |-> validatedLimit,
                     hasMore |-> (validatedOffset + validatedLimit) < Len(Elems(items)),
                     items |-> paginatedItems]))

SearchRoadmapBody(args, items) ==
    LET limit == Arg(args, "limit", 20)
        searchTerm == ToLowerCase(args.keyword)
    IN  IF items.kind # "array" THEN Thrown("items.filter is not a function")
        ELSE LET filteredItems ==
                    SliceSeq(SelectSeq(items.elems,
                                       LAMBDA item : ItemMatches(item, searchTerm)),
                             0, limit)
             IN  Returned(Success(
                    [keyword |-> args.keyword,
                     found |-> Len(filteredItems),
                     items |-> ArrayValue(filteredItems)]))

\* a handler that reads a field of items[0] before testing it, for comparison
ReadsFirstUnchecked(args, items) ==
    IF Sliceable(items) /\ Len(Elems(items)) > 0
    THEN Returned(Success(IF items.kind = "array" THEN items.elems[1]
                          ELSE StringValue(<<items.chars[1]>>)))
    ELSE Thrown("Cannot read properties of undefined")

\* the try block of get_roadmap_item: `const item = items[0]; if (!item) ...`
GetRoadmapItemBody(args, items) ==
    IF Sliceable(items) /\ Len(Elems(items)) > 0
    THEN Returned(Success(IF items.kind = "array" THEN items.elems[1]
                          ELSE StringValue(<<items.chars[1]>>)))
    ELSE Returned(NotFound(args.id))

FilterByProductBody(args, items) ==
    LET limit == Arg(args, "limit", 100)
        validatedLimit == Min(limit, MAX_RESULTS_LIMIT)
    IN  IF ~Sliceable(items) THEN Thrown(NotAFunction)
        ELSE LET limitedItems == Slice(items, 0, validatedLimit)
             IN  Returned(Success(
                    [product |-> args.product,
                     total |-> Len(Elems(items)),
                     returned |-> Len(Elems(limitedItems)),
                     hasMore |-> Len(Elems(limitedItems)) < Len(Elems(items)),
                     items |-> limitedItems]))

\* filter_by_release_phase, filter_by_status, filter_by_date, filter_roadmap
LimitedBody(echo, args, items) ==
    LET limit == Arg(args, "limit", 100)
    IN  IF ~Sliceable(items) THEN Thrown(NotAFunction)
        ELSE LET limitedItems == Slice(items, 0, limit)
                 counts == [total |-> Len(Elems(items)),
                            returned |-> Len(Elems(limitedItems)),
                            items |-> limitedItems]
             IN  Returned(Success(echo @@ counts))

HandlerTry(tool, args, items) ==
    CASE tool = "get_roadmap_items" -> GetRoadmapItemsBody(args, items)
      [] tool = "search_roadmap" -> SearchRoadmapBody(args, items)
      [] tool = "get_roadmap_item" -> GetRoadmapItemBody(args, items)
      [] tool = "filter_by_product" -> FilterByProductBody(args, items)
      [] tool = "filter_by_release_phase" ->
            LimitedBody([phase |-> args.phase], args, items)
      [] tool = "filter_by_status" ->
            LimitedBody([status |-> args.status], args, items)
      [] tool = "filter_by_date" ->
            LimitedBody([date |-> args.date,
                         dateType |-> Arg(args, "dateType", "generalAvailability")],
                        args, items)
      [] tool = "filter_roadmap" ->
            LimitedBody([filter |-> args.filter], args, items)

\* a catch block that throws again, for comparison
Rethrows(tool, args, msg) == Uncaught(msg)

\* the catch block of each handler
HandlerCatch(tool, args, msg) ==
    CASE tool = "get_roadmap_items" ->
            ErrorStructured(msg, [filter |-> Arg(args, "filter", Undefined),
                                  limit |-> Arg(args, "limit", 100),
                                  offset |-> Arg(args, "offset", 0)])
      [] tool = "filter_by_product" ->
            ErrorStructured(msg, [product |-> args.product,
                                  limit |-> Arg(args, "limit", 100)])
      [] OTHER -> ErrorText(msg)

\* the handler from the point where fetchRoadmapItemsV2 settles with `outcome`
HandlerResult(tool, args, outcome) ==
    IF outcome.threw THEN HandlerCatch(tool, args, outcome.message)
    ELSE LET r == HandlerTry(tool, args, outcome.value)
         IN  IF r.threw THEN HandlerCatch(tool, args, r.message) ELSE r.value

(***************************************************************************)
(* The input schemas given to registerTool. The server calls a handler     *)
(* only with arguments its schema accepts.                                 *)
(***************************************************************************)
GeneralAvailability ==
    <<"G","e","n","e","r","a","l"," ","A","v","a","i","l","a","b","i","l","i","t","y">>
PublicPreview == <<"P","u","b","l","i","c"," ","P","r","e","v","i","e","w">>
InDevelopment == <<"I","n"," ","D","e","v","e","l","o","p","m","e","n","t">>
RollingOut == <<"R","o","l","l","i","n","g"," ","O","u","t">>
\* z.enum of filter_by_release_phase
ReleasePhases == {GeneralAvailability, PublicPreview, InDevelopment, RollingOut}

InDevelopmentStatus == <<"I","n"," ","d","e","v","e","l","o","p","m","e","n","t">>
RollingOutStatus == <<"R","o","l","l","i","n","g"," ","o","u","t">>
Launched == <<"L","a","u","n","c","h","e","d">>
\* z.enum of filter_by_status
Statuses == {InDevelopmentStatus, RollingOutStatus, Launched}

\* z.enum of filter_by_date
DateTypes == {"generalAvailability", "preview"}

\* a schema that checks only that the required arguments are there, for comparison
RequiredOnly(tool, args) ==
    CASE tool = "get_roadmap_items" -> TRUE
      [] tool = "search_roadmap" -> "keyword" \in DOMAIN args
      [] tool = "get_roadmap_item" -> "id" \in DOMAIN args
      [] tool = "filter_by_product" -> "product" \in DOMAIN args
      [] tool = "filter_by_release_phase" -> "phase" \in DOMAIN args
      [] tool = "filter_by_status" -> "status" \in DOMAIN args
      [] tool = "filter_by_date" -> "date" \in DOMAIN args
      [] tool = "filter_roadmap" -> "filter" \in DOMAIN args

\* the inputSchema of each tool; numbers are integers and strings are strings here
SchemaAccepts(tool, args) ==
    CASE tool = "get_roadmap_items" ->
            /\ "limit" \in DOMAIN args =>
                  args.limit >= 1 /\ args.limit <= MAX_RESULTS_LIMIT
            /\ "offset" \in DOMAIN args => args.offset >= 0
            /\ "filter" \in DOMAIN args => Len(args.filter.str) <= 1000
      [] tool = "search_roadmap" -> "keyword" \in DOMAIN args
      [] tool = "get_roadmap_item" -> "id" \in DOMAIN args
      [] tool = "filter_by_product" ->
            /\ "product" \in DOMAIN args
            /\ Len(args.product) >= 1 /\ Len(args.product) <= 200
            /\ "limit" \in DOMAIN args =>
                  args.limit >= 1 /\ args.limit <= MAX_RESULTS_LIMIT
      [] tool = "filter_by_release_phase" ->
            "phase" \in DOMAIN args /\ args.phase \in ReleasePhases
      [] tool = "filter_by_status" ->
            "status" \in DOMAIN args /\ args.status \in Statuses
      [] tool = "filter_by_date" ->
            /\ "date" \in DOMAIN args
            /\ "dateType" \in DOMAIN args => args.dateType \in DateTypes
      [] tool = "filter_roadmap" -> "filter" \in DOMAIN args

\* what the caller gets when the schema rejects the arguments
ValidationFailure ==
    [isError |-> TRUE, body |-> [code |-> -32602, message |-> "Invalid arguments"]]

(***************************************************************************)
(* The original server, which the improved one replaces: no sanitizer, no  *)
(* cache, no timeout, no bounds in the schemas                             *)
(***************************************************************************)
\* the inputSchema of each tool of the original server
OriginalSchemaAccepts(tool, args) ==
    CASE tool = "get_roadmap_items" -> TRUE
      [] tool = "search_roadmap" -> "keyword" \in DOMAIN args
      [] tool = "get_roadmap_item" -> "id" \in DOMAIN args
      [] tool = "filter_by_product" -> "product" \in DOMAIN args
      [] tool = "filter_by_release_phase" ->
            "phase" \in DOMAIN args /\ args.phase \in ReleasePhases
      [] tool = "filter_by_status" ->
            "status" \in DOMAIN args /\ args.status \in Statuses
      [] tool = "filter_by_date" ->
            /\ "date" \in DOMAIN args
            /\ "dateType" \in DOMAIN args => args.dateType \in DateTypes
      [] tool = "filter_roadmap" -> "filter" \in DOMAIN args

\* the argument each original handler passes to its fetchRoadmapItemsV2
OriginalBuildFilter(tool, args) ==
    IF tool = "filter_by_product"
    THEN Some(ProductPrefix \o args.product \o AnySuffix)
    ELSE BuildFilter(tool, args)

\* the $filter parameter of the original request: `if (filter) url += ...`
OriginalRequestUrl(filter) == IF Truthy(filter) THEN Some(filter.str) ELSE Undefined

\* what the upstream does with one request
NoConnection == [kind |-> "network"]
ErrorStatus == [kind |-> "status"]
Answer(body) == [kind |-> "body", body |-> body]

\* the original fetchRoadmapItemsV2 against the upstream's answer
OriginalFetch(answer) ==
    CASE answer.kind = "network" -> Thrown("fetch failed")
      [] answer.kind = "status" -> Thrown("API request failed")
      [] answer.kind = "body" -> DecodeItems(answer.body)

\* the try block of each original handler, after the fetch returned `items`
OriginalHandlerTry(tool, args, items) ==
    CASE tool = "get_roadmap_items" ->
            LET limit == Arg(args, "limit", 100)
                offset == Arg(args, "offset", 0)
            IN  IF ~Sliceable(items) THEN Thrown(NotAFunction)
                ELSE LET paginatedItems == Slice(items, offset, offset + limit)
                     IN  Returned(Success(
                            [total |-> Len(Elems(items)),
                             returned |-> Len(Elems(paginatedItems)),
                             offset |-> offset,
                             items |-> paginatedItems]))
      [] tool = "search_roadmap" -> SearchRoadmapBody(args, items)
      [] tool = "get_roadmap_item" -> GetRoadmapItemBody(args, items)
      [] tool = "filter_by_product" ->
            LimitedBody([product |-> args.product], args, items)
      [] OTHER -> HandlerTry(tool, args, items)

\* the original handler from the point where its fetch settles with `outcome`
OriginalHandlerResult(tool, args, outcome) ==
    IF outcome.threw THEN ErrorText(outcome.message)
    ELSE LET r == OriginalHandlerTry(tool, args, outcome.value)
         IN  IF r.threw THEN ErrorText(r.message) ELSE r.value

\* one tool call to the original server: the schema, the request, the result
OriginalCall(tool, args, answer) ==
    IF ~OriginalSchemaAccepts(tool, args)
    THEN [url |-> Undefined, requests |-> 0, result |-> ValidationFailure]
    ELSE LET filter == OriginalBuildFilter(tool, args)
         IN  [url |-> OriginalRequestUrl(filter),
              requests |-> 1,
              result |-> OriginalHandlerResult(tool, args, OriginalFetch(answer))]

(***************************************************************************)
(* State                                                                   *)
(***************************************************************************)
Slots == 1..NumSlots

\* the metrics object; tools is the Map from tool name to its counters
InitialMetrics ==
    [requests |-> [total |-> 0, successful |-> 0, failed |-> 0],
     tools |-> <<>>,
     apiCalls |-> [total |-> 0, cached |-> 0, failed |-> 0]]

NoToolMetrics == [calls |-> 0, errors |-> 0]

ToolMetrics(m, toolName) ==
    IF toolName \in DOMAIN m.tools THEN m.tools[toolName] ELSE NoToolMetrics

trackToolCall(m, toolName, success) ==
    LET toolMetrics == ToolMetrics(m, toolName)
        counted == [calls |-> toolMetrics.calls + 1,
                    errors |-> IF success THEN toolMetrics.errors
                               ELSE toolMetrics.errors + 1]
    IN  [m EXCEPT !.tools =
            [t \in DOMAIN m.tools \cup {toolName} |->
                IF t = toolName THEN counted ELSE m.tools[t]]]

IdleCall ==
    [pc |-> "idle", tool |-> "none", args |-> <<>>, filter |-> Undefined,
     sanitizedFilter |-> Undefined, cacheKey |-> <<>>, url |-> Undefined,
     issuedAt |-> 0, requests |-> 0, hit |-> FALSE,
     items |-> NoValue, result |-> NoResult]

\* the handler has returned `result`
DoneCall(c, items, result) ==
    [c EXCEPT !.pc = "done", !.items = items, !.result = result]

Init ==
    /\ cache = <<>>
    /\ now = 0
    /\ requestCounter = 0
    /\ calls = [r \in Slots |-> IdleCall]
    /\ expr = <<>>
    /\ sanitized = NoResult
    /\ handlerCall = NoResult
    /\ handlerResult = NoResult
    /\ metrics = InitialMetrics
    /\ reply = NoResult
    /\ walk = NoResult

\* a get_roadmap_items that takes its page out of the cached array with splice
\* instead of copying it with slice, for comparison
SplicesOnHit(r, tool, args) ==
    LET filter == BuildFilter(tool, args)
        sf == SanitizedFilter(filter)
        started == [IdleCall EXCEPT !.tool = tool, !.args = args, !.filter = filter]
        key == CacheKeyOf(sf.value)
        keyed == [started EXCEPT !.sanitizedFilter = sf.value, !.cacheKey = key]
        isHit == ~sf.threw /\ CacheFresh(cache, key, now)
        data == CacheGet(cache, key).data
        page == HandlerResult(tool, args, Returned(data))
        first == Max(0, Arg(args, "offset", 0))
        rest == ArrayValue(SliceSeq(data.elems, 0, first)
                           \o SliceSeq(data.elems, first + Len(page.body.items.elems),
                                       Len(data.elems)))
    IN  /\ calls[r].pc = "idle"
        /\ requestCounter' = requestCounter + 1
        /\ metrics' = [metrics EXCEPT !.requests.total = @ + 1]
        /\ calls' = [calls EXCEPT ![r] =
              IF sf.threw
              THEN DoneCall(started, NoValue, HandlerResult(tool, args, sf))
              ELSE IF isHit
              THEN DoneCall([keyed EXCEPT !.hit = TRUE], data, page)
              ELSE [keyed EXCEPT !.pc = "fetching", !.url = RequestUrl(sf.value),
                                 !.issuedAt = now, !.requests = 1]]
        /\ cache' = IF isHit /\ tool = "get_roadmap_items" /\ data.kind = "array"
                    THEN [i \in DOMAIN cache |->
                            IF cache[i].key = key
                            THEN [cache[i] EXCEPT !.data = rest] ELSE cache[i]]
                    ELSE cache
        /\ UNCHANGED <<now, reply, harness>>

(***************************************************************************)
(* A tool call arrives: the handler runs up to the fetch; on a sanitizer   *)
(* rejection or a cache hit it runs to its end.                            *)
(***************************************************************************)
CallTool(r, tool, args) ==
    LET filter == BuildFilter(tool, args)
        sf == SanitizedFilter(filter)
        started == [IdleCall EXCEPT !.tool = tool, !.args = args, !.filter = filter]
    IN  /\ calls[r].pc = "idle"
        /\ requestCounter' = requestCounter + 1
        /\ metrics' = [metrics EXCEPT !.requests.total = @ + 1]
        /\ calls' = [calls EXCEPT ![r] =
              IF sf.threw
              THEN DoneCall(started, NoValue, HandlerResult(tool, args, sf))
              ELSE LET key == CacheKeyOf(sf.value)
                       keyed == [started EXCEPT !.sanitizedFilter = sf.value,
                                                !.cacheKey = key]
                   IN  IF CacheFresh(cache, key, now)
                       THEN LET data == CacheGet(cache, key).data
                            IN  DoneCall([keyed EXCEPT !.hit = TRUE], data,
                                         HandlerResult(tool, args, Returned(data)))
                       ELSE [keyed EXCEPT !.pc = "fetching",
                                          !.url = RequestUrl(sf.value),
                                          !.issuedAt = now,
                                          !.requests = 1]]
        /\ UNCHANGED <<cache, now, reply, harness>>

\* a tool call arrives at the server: the schema is applied, then the handler runs
ReceiveCall(r, tool, args) ==
    IF SchemaAccepts(tool, args)
    THEN CallTool(r, tool, args)
    ELSE /\ calls[r].pc = "idle"
         /\ requestCounter' = requestCounter + 1
         /\ metrics' = [metrics EXCEPT !.requests.total = @ + 1]
         /\ calls' = [calls EXCEPT ![r] =
               DoneCall([IdleCall EXCEPT !.tool = tool, !.args = args],
                        NoValue, ValidationFailure)]
         /\ UNCHANGED <<cache, now, reply, harness>>

\* a fetcher that sends the request a second time before giving up, for comparison
RetriesOnce(r, msg) ==
    calls' = [calls EXCEPT ![r] =
                IF @.requests < 2
                THEN [@ EXCEPT !.pc = "fetching", !.requests = @ + 1, !.issuedAt = now]
                ELSE DoneCall(@, NoValue, HandlerResult(@.tool, @.args, Thrown(msg)))]

\* the fetch failed: the catch of fetchRoadmapItemsV2 rethrows, the handler catches
FetchFails(r, msg) ==
    calls' = [calls EXCEPT ![r] =
                DoneCall(@, NoValue, HandlerResult(@.tool, @.args, Thrown(msg)))]

(***************************************************************************)
(* fetchWithTimeout                                                        *)
(***************************************************************************)
\* fetch() resolves with the status line and headers; the timer is cleared
ResponseHeaders(r, ok) ==
    /\ calls[r].pc = "fetching"
    /\ calls' = [calls EXCEPT ![r].pc = IF ok THEN "reading" ELSE "errorText"]
    /\ UNCHANGED <<cache, now, requestCounter, metrics, reply, harness>>

\* fetch() rejects: no connection
NetworkError(r) ==
    /\ calls[r].pc = "fetching"
    /\ FetchFails(r, "fetch failed")
    /\ UNCHANGED <<cache, now, requestCounter, metrics, reply, harness>>

\* the timer set by fetchWithTimeout fires and aborts the request
TimerFires(r) ==
    /\ calls[r].pc = "fetching"
    /\ now - calls[r].issuedAt >= API_TIMEOUT_MS
    /\ FetchFails(r, "Request timeout after 30000ms")
    /\ UNCHANGED <<cache, now, requestCounter, metrics, reply, harness>>

(***************************************************************************)
(* fetchRoadmapItemsV2 after the response headers                          *)
(***************************************************************************)
\* a failure path that caches an empty result before throwing, for comparison
StoresEmptyOnError(r) ==
    /\ calls[r].pc = "errorText"
    /\ FetchFails(r, "API request failed")
    /\ cache' = StoreResult(cache, calls[r].cacheKey, ArrayValue(<<>>), now,
                            calls[r].sanitizedFilter)
    /\ UNCHANGED <<now, requestCounter, metrics, reply, harness>>

\* !response.ok: response.text() settles either way, then the throw
ErrorTextSettles(r) ==
    /\ calls[r].pc = "errorText"
    /\ FetchFails(r, "API request failed")
    /\ UNCHANGED <<cache, now, requestCounter, metrics, reply, harness>>

\* response.json() settles with the body: decode, store, return to the handler
BodyArrives(r, body) ==
    LET c == calls[r]
        decoded == DecodeItems(body)
    IN  /\ c.pc = "reading"
        /\ IF decoded.threw
           THEN /\ FetchFails(r, decoded.message)
                /\ UNCHANGED cache
           ELSE /\ cache' = StoreResult(cache, c.cacheKey, decoded.value, now,
                                        c.sanitizedFilter)
                /\ calls' = [calls EXCEPT ![r] =
                      DoneCall(c, decoded.value,
                               HandlerResult(c.tool, c.args, decoded))]
        /\ UNCHANGED <<now, requestCounter, metrics, reply, harness>>

\* response.json() rejects: the connection broke while the body was read
BodyBreaks(r) ==
    /\ calls[r].pc = "reading"
    /\ FetchFails(r, "terminated")
    /\ UNCHANGED <<cache, now, requestCounter, metrics, reply, harness>>

\* transport.handleRequest resolves: the result has reached the caller, the
\* request is counted as successful and the slot is free again
Return(r) ==
    /\ calls[r].pc = "done"
    /\ calls' = [calls EXCEPT ![r] = IdleCall]
    /\ metrics' = trackToolCall([metrics EXCEPT !.requests.successful = @ + 1],
                                calls[r].tool, TRUE)
    /\ UNCHANGED <<cache, now, requestCounter, reply, harness>>

(***************************************************************************)
(* Time and operations                                                     *)
(***************************************************************************)
\* time passes; an armed timer fires no later than its deadline
Tick(d) ==
    /\ \A r \in Slots :
          calls[r].pc = "fetching" => now + d <= calls[r].issuedAt + API_TIMEOUT_MS
    /\ now' = now + d
    /\ UNCHANGED <<cache, requestCounter, calls, metrics, reply, harness>>

\* a clear that also aborts the requests in flight, for comparison
ClearAborts ==
    /\ cache' = <<>>
    /\ reply' = [message |-> "Cache cleared", previousSize |-> Len(cache)]
    /\ calls' = [r \in Slots |->
                   IF calls[r].pc \in {"fetching", "reading", "errorText"}
                   THEN DoneCall(calls[r], NoValue,
                                 HandlerResult(calls[r].tool, calls[r].args,
                                               Thrown("This operation was aborted")))
                   ELSE calls[r]]
    /\ UNCHANGED <<now, requestCounter, metrics, harness>>

\* POST /cache/clear
CacheClear ==
    /\ cache' = <<>>
    /\ reply' = [message |-> "Cache cleared", previousSize |-> Len(cache)]
    /\ UNCHANGED <<now, requestCounter, calls, metrics, harness>>

\* value.data.length; -1 stands for the undefined of a value without a length
LengthOf(v) == IF Sliceable(v) THEN Len(Elems(v)) ELSE -1

\* a statistics route that drops the expired entries it finds, for comparison
PrunesOnStats ==
    /\ cache' = SelectSeq(cache, LAMBDA e : now - e.timestamp < MAX_CACHE_AGE_MS)
    /\ reply' = [size |-> Len(cache'),
                 entries |-> [i \in DOMAIN cache' |->
                                [filter |-> cache'[i].key,
                                 itemCount |-> LengthOf(cache'[i].data),
                                 age |-> now - cache'[i].timestamp,
                                 ageMinutes |-> (now - cache'[i].timestamp) \div 60000]]]
    /\ UNCHANGED <<now, requestCounter, calls, metrics, harness>>

\* GET /cache/stats
CacheStats ==
    /\ reply' = [size |-> Len(cache),
                 entries |-> [i \in DOMAIN cache |->
                                [filter |-> cache[i].key,
                                 itemCount |-> LengthOf(cache[i].data),
                                 age |-> now - cache[i].timestamp,
                                 ageMinutes |-> (now - cache[i].timestamp) \div 60000]]]
    /\ UNCHANGED <<cache, now, requestCounter, calls, metrics, harness>>

\* GET /health
Health ==
    /\ reply' = [status |-> "healthy",
                 uptime |-> now \div 1000,
                 cache |-> [size |-> Len(cache), maxAge |-> MAX_CACHE_AGE_MS \div 1000]]
    /\ UNCHANGED <<cache, now, requestCounter, calls, metrics, harness>>

\* GET /metrics
MetricsQuery ==
    /\ reply' = [uptime |-> now \div 1000,
                 requests |-> metrics.requests,
                 tools |-> metrics.tools,
                 api |-> metrics.apiCalls,
                 cache |-> [size |-> Len(cache), maxEntries |-> MAX_CACHE_ENTRIES,
                            maxAge |-> MAX_CACHE_AGE_MS]]
    /\ UNCHANGED <<cache, now, requestCounter, calls, metrics, harness>>

(***************************************************************************)
(* Inputs of the runs                                                      *)
(***************************************************************************)
Item1 == [id |-> 1, title |-> Some(<<"C","o","p">>), description |-> Undefined]
Item2 == [id |-> 2, title |-> Undefined, description |-> Some(<<"c","o">>)]
Item3 == [id |-> 3, title |-> Undefined, description |-> Undefined]
Item4 == [id |-> 4, title |-> Some(<<"x","C","O","P","y">>), description |-> Some(<<"z">>)]

\* what the upstream can send as a body
Bodies ==
    << ObjectJson(ArrayValue(<<Item1, Item2, Item3>>)),
       InvalidJson,
       ObjectJson(NumberValue),
       ObjectJson(AbsentValue),
       ObjectJson(ArrayValue(<<Item2>>)),
       ObjectJson(ArrayValue(<<>>)),
       ObjectJson(StringValue(<<"o","k">>)),
       NullJson,
       ObjectJson(ArrayValue(<<Item2, Item3, Item4, Item1>>)) >>

\* the tool calls a client makes
Workload ==
    << [tool |-> "get_roadmap_items", args |-> <<>>],
       [tool |-> "get_roadmap_items",
        args |-> [limit |-> 2, offset |-> 1, filter |-> Some(<<"a",";">>)]],
       [tool |-> "filter_roadmap", args |-> [filter |-> <<"e","x","e","c">>]] >>

Horizon == HorizonTicks * API_TIMEOUT_MS

(***************************************************************************)
(* Concurrent tool calls against the cache and the upstream; a new request *)
(* takes the lowest idle slot.                                             *)
(***************************************************************************)
Next ==
    \/ \E r \in Slots : \E w \in DOMAIN Workload :
          /\ requestCounter < MaxRequests
          /\ \A q \in 1..(r - 1) : calls[q].pc # "idle"
          /\ ReceiveCall(r, Workload[w].tool, Workload[w].args)
    \/ \E r \in Slots : \E ok \in BOOLEAN : ResponseHeaders(r, ok)
    \/ \E r \in Slots : NetworkError(r)
    \/ \E r \in Slots : TimerFires(r)
    \/ \E r \in Slots : ErrorTextSettles(r)
    \/ \E r \in Slots : \E b \in 1..NumBodies : BodyArrives(r, Bodies[b])
    \/ \E r \in Slots : BodyBreaks(r)
    \/ \E r \in Slots : Return(r)
    \/ now + API_TIMEOUT_MS <= Horizon /\ Tick(API_TIMEOUT_MS)
    \/ CacheClear

Spec == Init /\ [][Next]_vars

(***************************************************************************)
(* One client, long enough for cache entries to expire                     *)
(***************************************************************************)
TtlHorizon == MAX_CACHE_AGE_MS + TtlSlackTicks * API_TIMEOUT_MS

NextTtl ==
    \/ \E w \in 1..2 :
          /\ requestCounter < MaxTtlRequests
          /\ ReceiveCall(1, Workload[w].tool, Workload[w].args)
    \/ ResponseHeaders(1, TRUE)
    \/ TimerFires(1)
    \/ \E b \in 1..NumBodies : BodyArrives(1, Bodies[b])
    \/ Return(1)
    \/ \E d \in {API_TIMEOUT_MS, MAX_CACHE_AGE_MS - API_TIMEOUT_MS} :
          now + d <= TtlHorizon /\ Tick(d)
    \/ CacheClear

SpecTtl == Init /\ [][NextTtl]_vars

(***************************************************************************)
(* Filling the cache: get_roadmap_item for the ids 1, 2, ... 50, and then  *)
(* alternately for the oldest id again and for the next new id. Further    *)
(* requests run concurrently from shortly before the cache is full; a new  *)
(* request takes the lowest idle slot.                                     *)
(***************************************************************************)
FillId(n) ==
    IF n <= MAX_CACHE_ENTRIES THEN n
    ELSE IF (n - MAX_CACHE_ENTRIES) % 2 = 1 THEN 1
    ELSE MAX_CACHE_ENTRIES + ((n - MAX_CACHE_ENTRIES) \div 2)

KeyOfId(n) == IdEqPrefix \o ToDigits(n)

NextFill ==
    \/ \E r \in Slots :
          /\ requestCounter < MAX_CACHE_ENTRIES + FillExtra
          /\ r = 1 \/ requestCounter >= MAX_CACHE_ENTRIES - FillOverlap
          /\ \A q \in 1..(r - 1) : calls[q].pc # "idle"
          /\ ReceiveCall(r, "get_roadmap_item",
                         [id |-> ToDigits(FillId(requestCounter + 1))])
    \/ \E r \in Slots : ResponseHeaders(r, TRUE)
    \/ \E r \in Slots : BodyArrives(r, ObjectJson(ArrayValue(<<Item1>>)))
    \/ \E r \in Slots : Return(r)
    \/ requestCounter = MAX_CACHE_ENTRIES + FillExtra /\ CacheClear

SpecFill == Init /\ [][NextFill]_vars

(***************************************************************************)
(* One tool call, with arguments inside and outside its schema, against    *)
(* everything the upstream can answer                                      *)
(***************************************************************************)
Repeat(c, n) == [i \in 1..n |-> c]

October == <<"2","0","2","5","-","1","0">>

ToolCalls ==
    { [tool |-> "get_roadmap_items", args |-> <<>>],
      [tool |-> "get_roadmap_items", args |-> [limit |-> MAX_RESULTS_LIMIT, offset |-> 0]],
      [tool |-> "get_roadmap_items", args |-> [limit |-> 0]],
      [tool |-> "get_roadmap_items", args |-> [limit |-> MAX_RESULTS_LIMIT + 1]],
      [tool |-> "get_roadmap_items", args |-> [offset |-> -1]],
      [tool |-> "get_roadmap_items", args |-> [filter |-> Some(<<"a",";">>)]],
      [tool |-> "get_roadmap_items", args |-> [filter |-> Some(Repeat("a", 1000))]],
      [tool |-> "get_roadmap_items", args |-> [filter |-> Some(Repeat("a", 1001))]],
      [tool |-> "search_roadmap", args |-> [keyword |-> <<"C","O">>]],
      [tool |-> "search_roadmap", args |-> [keyword |-> <<"c">>, limit |-> 1]],
      [tool |-> "search_roadmap", args |-> [keyword |-> <<"q">>, limit |-> 5]],
      [tool |-> "search_roadmap", args |-> [keyword |-> <<"O","p">>, limit |-> 2]],
      [tool |-> "search_roadmap", args |-> [keyword |-> <<"c">>, limit |-> -1]],
      [tool |-> "get_roadmap_item", args |-> [id |-> <<"1">>]],
      [tool |-> "get_roadmap_item", args |-> [id |-> Repeat("9", 9)]],
      [tool |-> "filter_by_product", args |-> [product |-> <<"o","'","b">>]],
      [tool |-> "filter_by_product", args |-> [product |-> <<"'","'">>, limit |-> 2]],
      [tool |-> "filter_by_product", args |-> [product |-> <<"a",";","b">>]],
      [tool |-> "filter_by_product", args |-> [product |-> <<"a","\\">>]],
      [tool |-> "filter_by_product", args |-> [product |-> <<"U","p","d","a","t","e">>]],
      [tool |-> "filter_by_product", args |-> [product |-> Repeat("T", 200)]],
      [tool |-> "filter_by_product", args |-> [product |-> Repeat("T", 201)]],
      [tool |-> "filter_by_product", args |-> [product |-> <<>>]],
      [tool |-> "filter_by_product", args |-> [product |-> <<"T">>, limit |-> 0]],
      [tool |-> "filter_by_product",
       args |-> [product |-> <<"T">>, limit |-> MAX_RESULTS_LIMIT + 1]],
      [tool |-> "filter_by_release_phase", args |-> [phase |-> PublicPreview]],
      [tool |-> "filter_by_release_phase", args |-> [phase |-> <<"B","e","t","a">>]],
      [tool |-> "filter_by_status", args |-> [status |-> Launched, limit |-> 2]],
      [tool |-> "filter_by_status", args |-> [status |-> <<"D","o","n","e">>]],
      [tool |-> "filter_by_date", args |-> [date |-> October]],
      [tool |-> "filter_by_date", args |-> [date |-> October, dateType |-> "preview"]],
      [tool |-> "filter_by_date", args |-> [date |-> October, dateType |-> "ga"]],
      [tool |-> "filter_by_date", args |-> [date |-> <<"s","o","o","n">>]],
      [tool |-> "filter_by_date", args |-> [date |-> <<"x","'","y">>]],
      [tool |-> "filter_roadmap", args |-> [filter |-> <<"a">>, limit |-> 1]],
      [tool |-> "filter_roadmap", args |-> [filter |-> <<"e","x","e","c">>]] }

InitCalls ==
    /\ cache = <<>>
    /\ now = 0
    /\ requestCounter = 0
    /\ calls = [r \in Slots |-> IdleCall]
    /\ expr = <<>>
    /\ sanitized = NoResult
    /\ handlerCall \in ToolCalls
    /\ handlerResult = NoResult
    /\ metrics = InitialMetrics
    /\ reply = NoResult
    /\ walk = NoResult

\* the call of this run arrives
Receive ==
    /\ requestCounter = 0
    /\ ReceiveCall(1, handlerCall.tool, handlerCall.args)

NextCalls ==
    \/ Receive
    \/ \E ok \in BOOLEAN : ResponseHeaders(1, ok)
    \/ NetworkError(1)
    \/ ErrorTextSettles(1)
    \/ \E b \in DOMAIN Bodies : BodyArrives(1, Bodies[b])
    \/ BodyBreaks(1)

SpecCalls == InitCalls /\ [][NextCalls]_vars

(***************************************************************************)
(* One client whose calls share cache entries, and an operator who uses    *)
(* the operations routes while they run                                    *)
(***************************************************************************)
All == <<"a","l","l">>

OpsCalls ==
    << [tool |-> "get_roadmap_items", args |-> <<>>],
       [tool |-> "get_roadmap_items", args |-> [filter |-> Some(All)]],
       [tool |-> "get_roadmap_items", args |-> [limit |-> 1, offset |-> 1]],
       [tool |-> "search_roadmap", args |-> [keyword |-> <<"c">>, limit |-> 1]],
       [tool |-> "get_roadmap_items", args |-> [filter |-> Some(<<" ">>)]],
       [tool |-> "filter_roadmap", args |-> [filter |-> <<"e","x","e","c">>]] >>

NextOps ==
    \/ \E w \in DOMAIN OpsCalls :
          /\ requestCounter < MaxOpsCalls
          /\ ReceiveCall(1, OpsCalls[w].tool, OpsCalls[w].args)
    \/ \E ok \in BOOLEAN : ResponseHeaders(1, ok)
    \/ ErrorTextSettles(1)
    \/ \E b \in {1, 5} : BodyArrives(1, Bodies[b])
    \/ Return(1)
    \/ now = 0 /\ Tick(MAX_CACHE_AGE_MS)
    \/ CacheClear
    \/ CacheStats
    \/ Health
    \/ MetricsQuery

SpecOps == Init /\ [][NextOps]_vars

(***************************************************************************)
(* The same tool call and the same upstream answer given to the original   *)
(* server and to the improved one, whose cache is cold                     *)
(***************************************************************************)
UpstreamAnswers ==
    {NoConnection, ErrorStatus} \cup {Answer(Bodies[b]) : b \in DOMAIN Bodies}

InitCompat ==
    /\ cache = <<>>
    /\ now = 0
    /\ requestCounter = 0
    /\ calls = [r \in Slots |-> IdleCall]
    /\ expr = <<>>
    /\ sanitized = NoResult
    /\ \E c \in ToolCalls : \E u \in UpstreamAnswers :
          handlerCall = [tool |-> c.tool, args |-> c.args, answer |-> u]
    /\ handlerResult = NoResult
    /\ metrics = InitialMetrics
    /\ reply = NoResult
    /\ walk = NoResult

\* the original server serves the call
OriginalRun ==
    /\ handlerResult = NoResult
    /\ handlerResult' = OriginalCall(handlerCall.tool, handlerCall.args,
                                     handlerCall.answer)
    /\ UNCHANGED <<server, expr, sanitized, handlerCall, walk>>

NextCompat ==
    \/ OriginalRun
    \/ Receive
    \/ handlerCall.answer.kind = "network" /\ NetworkError(1)
    \/ handlerCall.answer.kind # "network"
          /\ ResponseHeaders(1, handlerCall.answer.kind = "body")
    \/ ErrorTextSettles(1)
    \/ handlerCall.answer.kind = "body" /\ BodyArrives(1, handlerCall.answer.body)

SpecCompat == InitCompat /\ [][NextCompat]_vars

(***************************************************************************)
(* Tool calls that read the same cache entry, started together, against an *)
(* upstream whose answer changes; a new request takes the lowest idle slot *)
(***************************************************************************)
NextRace ==
    \/ \E r \in Slots : \E w \in {1, 4} :
          /\ requestCounter < MaxRequests
          /\ \A q \in 1..(r - 1) : calls[q].pc # "idle"
          /\ ReceiveCall(r, OpsCalls[w].tool, OpsCalls[w].args)
    \/ \E r \in Slots : ResponseHeaders(r, TRUE)
    \/ \E r \in Slots : \E b \in {1, 5, 9} : BodyArrives(r, Bodies[b])
    \/ \E r \in Slots : Return(r)
    \/ now + API_TIMEOUT_MS <= Horizon /\ Tick(API_TIMEOUT_MS)

SpecRace == Init /\ [][NextRace]_vars

(***************************************************************************)
(* Tool calls answered from one cache entry: the first call fetches the    *)
(* list, the others arrive when it is stored and while it is valid         *)
(***************************************************************************)
NextShared ==
    \/ \E r \in Slots : \E w \in {1, 3, 4} :
          /\ requestCounter < MaxSharedCalls
          /\ requestCounter = 0 \/ cache # <<>>
          /\ \A q \in 1..(r - 1) : calls[q].pc # "idle"
          /\ ReceiveCall(r, OpsCalls[w].tool, OpsCalls[w].args)
    \/ \E r \in Slots : ResponseHeaders(r, TRUE)
    \/ \E r \in Slots : \E b \in {1, 9} : BodyArrives(r, Bodies[b])
    \/ \E r \in Slots : Return(r)

SpecShared == Init /\ [][NextShared]_vars

(***************************************************************************)
(* The sanitizer on its own                                                *)
(***************************************************************************)
SanTokens ==
    { <<"d","r","o","p">>, <<"D","r","O","P">>, <<"d","r">>, <<"o","p">>,
      <<"e","x","e","c">>, <<"u","t","e">>, <<";">>, <<"\\">>, <<" ">>,
      <<"\t">>, <<"x">>, <<"_">>, <<"'">>, <<"-">> }

RECURSIVE TokenStrings(_)
TokenStrings(n) ==
    IF n = 0 THEN {<<>>}
    ELSE LET shorter == TokenStrings(n - 1)
         IN  shorter \cup {s \o t : s \in shorter, t \in SanTokens}

InitSan ==
    /\ cache = <<>>
    /\ now = 0
    /\ requestCounter = 0
    /\ calls = [r \in Slots |-> IdleCall]
    /\ expr \in TokenStrings(MaxTokens)
    /\ sanitized = NoResult
    /\ handlerCall = NoResult
    /\ handlerResult = NoResult
    /\ metrics = InitialMetrics
    /\ reply = NoResult
    /\ walk = NoResult

Sanitize ==
    /\ sanitized = NoResult
    /\ sanitized' = sanitizeODataFilter(expr)
    /\ UNCHANGED <<server, expr, handlerCall, handlerResult, walk>>

SpecSan == InitSan /\ [][Sanitize]_vars

(***************************************************************************)
(* The handlers on their own: every tool against every fetch outcome       *)
(***************************************************************************)
NumberedItem(i) == [id |-> i, title |-> Undefined, description |-> Undefined]

\* the sequences of items a fetch can return
FetchedSequences ==
    {[i \in 1..n |-> NumberedItem(i)] :
        n \in (0..MaxTotal) \cup {23, MAX_RESULTS_LIMIT + 1}}

FetchOutcomes ==
    {Returned(ArrayValue(q)) : q \in FetchedSequences}
    \cup {DecodeItems(Bodies[b]) : b \in DOMAIN Bodies}
    \cup {Thrown(m) : m \in {InvalidFilterMessage, "Request timeout after 30000ms",
                             "API request failed", "fetch failed"}}

HandlerCalls ==
    {[tool |-> "get_roadmap_items", args |-> [limit |-> l, offset |-> o]] :
        l \in {1, 2, 10, MAX_RESULTS_LIMIT}, o \in {0, 1, 2, 3, 5, 20}}
    \cup
    { [tool |-> "get_roadmap_items", args |-> <<>>],
      [tool |-> "get_roadmap_items", args |-> [filter |-> Some(<<"a",";">>)]],
      [tool |-> "search_roadmap", args |-> [keyword |-> <<"C","O">>]],
      [tool |-> "search_roadmap", args |-> [keyword |-> <<"c">>, limit |-> 1]],
      [tool |-> "get_roadmap_item", args |-> [id |-> <<"1">>]],
      [tool |-> "filter_by_product", args |-> [product |-> <<"o","'","b">>]],
      [tool |-> "filter_by_product", args |-> [product |-> <<"T">>, limit |-> 2]],
      [tool |-> "filter_by_release_phase", args |-> [phase |-> PublicPreview]],
      [tool |-> "filter_by_status", args |-> [status |-> Launched, limit |-> 2]],
      [tool |-> "filter_by_date", args |-> [date |-> October]],
      [tool |-> "filter_by_date",
       args |-> [date |-> October, dateType |-> "preview", limit |-> 1]],
      [tool |-> "filter_roadmap", args |-> [filter |-> <<"a">>, limit |-> 1]],
      [tool |-> "search_roadmap", args |-> [keyword |-> <<"c">>, limit |-> 0]],
      [tool |-> "search_roadmap", args |-> [keyword |-> <<"c">>, limit |-> -1]],
      [tool |-> "filter_by_product",
       args |-> [product |-> <<"T">>, limit |-> MAX_RESULTS_LIMIT]],
      [tool |-> "filter_by_release_phase",
       args |-> [phase |-> PublicPreview, limit |-> 2 * MAX_RESULTS_LIMIT]],
      [tool |-> "filter_by_status", args |-> [status |-> Launched, limit |-> -1]],
      [tool |-> "filter_by_date", args |-> [date |-> October, limit |-> 0]],
      [tool |-> "filter_roadmap", args |-> [filter |-> <<"a">>, limit |-> -2]] }

InitHandlers ==
    /\ cache = <<>>
    /\ now = 0
    /\ requestCounter = 0
    /\ calls = [r \in Slots |-> IdleCall]
    /\ expr = <<>>
    /\ sanitized = NoResult
    /\ handlerCall \in {[tool |-> c.tool, args |-> c.args, outcome |-> o] :
                           c \in HandlerCalls, o \in FetchOutcomes}
    /\ handlerResult = NoResult
    /\ metrics = InitialMetrics
    /\ reply = NoResult
    /\ walk = NoResult

\* the handler, entered with its arguments, once the fetch has settled
RunHandler ==
    /\ handlerResult = NoResult
    /\ handlerResult' = HandlerResult(handlerCall.tool, handlerCall.args,
                                      handlerCall.outcome)
    /\ UNCHANGED <<server, expr, sanitized, handlerCall, walk>>

SpecHandlers == InitHandlers /\ [][RunHandler]_vars

(***************************************************************************)
(* A client that reads the whole list page by page: get_roadmap_items with *)
(* a fixed limit and the offsets 0, limit, 2 * limit, ... while the last   *)
(* answer said hasMore, every call answered from the same fetched list     *)
(***************************************************************************)
WalkLimits == {1, 2, 3, 10, MAX_RESULTS_LIMIT}

InitWalk ==
    /\ cache = <<>>
    /\ now = 0
    /\ requestCounter = 0
    /\ calls = [r \in Slots |-> IdleCall]
    /\ expr = <<>>
    /\ sanitized = NoResult
    /\ handlerCall = NoResult
    /\ handlerResult = NoResult
    /\ metrics = InitialMetrics
    /\ reply = NoResult
    /\ \E l \in WalkLimits : \E q \in FetchedSequences :
          walk = [limit |-> l, fetched |-> q, offset |-> 0, calls |-> 0,
                  pages |-> <<>>, done |-> FALSE]

\* the client asks for the next page and puts it behind the pages it has
NextPage ==
    LET args == [limit |-> walk.limit, offset |-> walk.offset]
        result == HandlerResult("get_roadmap_items", args,
                                Returned(ArrayValue(walk.fetched)))
    IN  /\ ~walk.done
        /\ handlerCall' = [tool |-> "get_roadmap_items", args |-> args,
                           outcome |-> Returned(ArrayValue(walk.fetched))]
        /\ handlerResult' = result
        /\ walk' = [walk EXCEPT !.calls = @ + 1,
                                !.pages = @ \o result.body.items.elems,
                                !.offset = @ + walk.limit,
                                !.done = ~result.body.hasMore]
        /\ UNCHANGED <<server, expr, sanitized>>

SpecWalk == InitWalk /\ [][NextPage]_vars

(***************************************************************************)
(* Properties                                                              *)
(***************************************************************************)
\* a step in which slot r takes a tool call as far as the cache lookup
LookupStep(r) ==
    /\ calls[r].pc = "idle"
    /\ calls'[r].pc # "idle"
    /\ calls'[r].cacheKey # <<>>

\* a step in which the fetch of slot r returns items to its handler
FetchReturnStep(r) ==
    /\ calls[r].pc = "reading"
    /\ calls'[r].pc = "done"
    /\ calls'[r].items # NoValue

\* a step in which the tool call of slot r ends without items from the fetcher
FetchFailureStep(r) ==
    /\ calls[r].pc # "done"
    /\ calls'[r].pc = "done"
    /\ calls'[r].items = NoValue

InFlight(r) == calls[r].pc \in {"fetching", "reading", "errorText"}

\* C1: a lookup of a key whose entry is younger than 5 minutes is a hit that
\* returns the entry's items; a lookup of a key with no entry, or with an entry
\* of age 5 minutes or more, is a miss.
C1_CacheTtl ==
    [][\A r \in Slots : LookupStep(r) =>
          LET k == calls'[r].cacheKey
              entries == {i \in DOMAIN cache : cache[i].key = k}
          IN  IF \E i \in entries : now - cache[i].timestamp < 300000
              THEN /\ calls'[r].pc = "done"
                   /\ calls'[r].hit
                   /\ \E i \in entries : calls'[r].items = cache[i].data
              ELSE /\ calls'[r].pc = "fetching"
                   /\ ~calls'[r].hit
                   /\ calls'[r].items = NoValue]_vars

\* a lookup made exactly 5 minutes after the store misses
C1_MissAtFiveMinutes ==
    \E r \in Slots :
        /\ calls[r].pc = "fetching"
        /\ \E i \in DOMAIN cache :
              /\ cache[i].key = calls[r].cacheKey
              /\ calls[r].issuedAt - cache[i].timestamp = 300000

\* C2: a hit returns the cached items and issues no upstream request; a miss
\* issues one, and when the fetch then returns items the cache holds an entry
\* for the key with exactly those items.
C2_HitMissProtocol ==
    [][\A r \in Slots :
          /\ (LookupStep(r) /\ calls'[r].hit) =>
                /\ calls'[r].requests = 0
                /\ calls'[r].pc = "done"
                /\ \E i \in DOMAIN cache :
                      /\ cache[i].key = calls'[r].cacheKey
                      /\ cache[i].data = calls'[r].items
          /\ (LookupStep(r) /\ ~calls'[r].hit) =>
                /\ calls'[r].requests = 1
                /\ calls'[r].pc = "fetching"
          /\ FetchReturnStep(r) =>
                /\ calls'[r].requests = 1
                /\ \E i \in DOMAIN cache' :
                      /\ cache'[i].key = calls'[r].cacheKey
                      /\ cache'[i].data = calls'[r].items
                      /\ cache'[i].timestamp = now]_vars

\* a miss has returned items from a store that evicted the oldest entry
C2_StoredWhileEvicting ==
    \E r \in Slots :
        /\ calls[r].pc = "done"
        /\ ~calls[r].hit
        /\ calls[r].items # NoValue
        /\ Len(cache) = 50
        /\ cache[50].key = calls[r].cacheKey
        /\ \A i \in DOMAIN cache : cache[i].key # KeyOfId(1)

\* C3: the cache never holds more than 50 entries, and a store of a new key
\* into a cache of 50 entries leaves 50 entries without the first-inserted key.
C3_Capacity ==
    /\ [](Len(cache) <= 50)
    /\ [][\A r \in Slots :
             (/\ FetchReturnStep(r)
              /\ Len(cache) = 50
              /\ \A i \in DOMAIN cache : cache[i].key # calls[r].cacheKey)
             => /\ Len(cache') = 50
                /\ \A i \in DOMAIN cache' : cache'[i].key # cache[1].key
                /\ cache'[50].key = calls[r].cacheKey]_vars

\* 51 distinct keys were stored: 50 entries are held and the first key is gone
C3_FiftyOfFiftyOne ==
    /\ Len(cache) = 50
    /\ {cache[i].key : i \in DOMAIN cache} = {KeyOfId(n) : n \in 2..51}

\* C4: a fetch that missed the cache is never pending for more than 30 seconds.
C4_NeverHangs ==
    \A r \in Slots : InFlight(r) => now - calls[r].issuedAt <= 30000

\* C5: a tool call whose fetch fails leaves the cache and the other calls as
\* they were.
C5_FailureLeavesCache ==
    [][\A r \in Slots : FetchFailureStep(r) =>
          /\ cache' = cache
          /\ \A q \in Slots \ {r} : calls'[q] = calls[q]]_vars

\* a fetch has timed out while the cache held another call's entry
C5_TimeoutBesideEntry ==
    \E r \in Slots :
        /\ calls[r].pc = "done"
        /\ calls[r].result.isError
        /\ calls[r].result.body.message = "Request timeout after 30000ms"
        /\ Len(cache) > 0

\* C6: whatever the fetch outcome, each handler returns a success result or
\* an error-flagged result with a message; no exception leaves the handler.
C6_NoErrorEscapes ==
    handlerResult # NoResult =>
        /\ "isError" \in DOMAIN handlerResult
        /\ handlerResult.isError => "message" \in DOMAIN handlerResult.body

\* a TypeError raised inside a handler, on a fetched value that is no array,
\* came back as an error-flagged result
C6_TypeErrorCaught ==
    /\ handlerResult # NoResult
    /\ ~handlerCall.outcome.threw
    /\ handlerCall.outcome.value = NumberValue
    /\ handlerResult.isError
    /\ handlerResult.body.message = NotAFunction

\* C7: the error-flagged result of every tool carries the call's arguments.
C7_ErrorCarriesArguments ==
    (handlerResult # NoResult /\ handlerCall.outcome.threw) =>
        /\ handlerResult.isError
        /\ "data" \in DOMAIN handlerResult.body
        /\ \A a \in DOMAIN handlerCall.args :
              /\ a \in DOMAIN handlerResult.body.data
              /\ handlerResult.body.data[a] = handlerCall.args[a]

\* C8: every success envelope has total, returned and items, and those of
\* get_roadmap_items and filter_by_product also offset, limit and hasMore.
C8_SuccessEnvelope ==
    (handlerResult # NoResult /\ ~handlerResult.isError) =>
        /\ {"total", "returned", "items"} \subseteq DOMAIN handlerResult.body
        /\ handlerCall.tool \in {"get_roadmap_items", "filter_by_product"} =>
              {"offset", "limit", "hasMore"} \subseteq DOMAIN handlerResult.body

\* C9: get_roadmap_items with limit in 1..1000 and offset >= 0 returns the
\* fetched items at the indices offset .. min(offset+limit, total) - 1 in
\* order, their count as `returned`, and hasMore exactly when
\* offset+limit < total.
C9_Pagination ==
    LET args == handlerCall.args
        limit == IF "limit" \in DOMAIN args THEN args.limit ELSE 100
        offset == IF "offset" \in DOMAIN args THEN args.offset ELSE 0
    IN  (/\ handlerResult # NoResult
         /\ handlerCall.tool = "get_roadmap_items"
         /\ ~handlerCall.outcome.threw
         /\ handlerCall.outcome.value.kind = "array"
         /\ limit \in 1..1000
         /\ offset >= 0)
        => LET fetched == handlerCall.outcome.value.elems
               total == Len(fetched)
               upto == IF offset + limit < total THEN offset + limit ELSE total
               count == IF upto > offset THEN upto - offset ELSE 0
               body == handlerResult.body
           IN  /\ ~handlerResult.isError
               /\ body.total = total
               /\ body.returned = count
               /\ body.items.kind = "array"
               /\ Len(body.items.elems) = count
               /\ \A i \in 1..count : body.items.elems[i] = fetched[offset + i]
               /\ body.hasMore = (offset + limit < total)

\* limit 10 at offset 20 of 23 fetched items: the last 3 items, no more
C9_LastPageOfTwentyThree ==
    /\ handlerResult # NoResult
    /\ handlerCall.tool = "get_roadmap_items"
    /\ handlerCall.args = [limit |-> 10, offset |-> 20]
    /\ ~handlerCall.outcome.threw
    /\ handlerCall.outcome.value.kind = "array"
    /\ Len(handlerCall.outcome.value.elems) = 23
    /\ handlerResult.body.returned = 3
    /\ ~handlerResult.body.hasMore

\* the maximal runs of word characters of s, as pairs of positions
WordRuns(s) ==
    {<<i, j>> \in (1..Len(s)) \X (1..Len(s)) :
        /\ i <= j
        /\ \A k \in i..j : IsWordChar(s[k])
        /\ i = 1 \/ ~IsWordChar(s[i - 1])
        /\ j = Len(s) \/ ~IsWordChar(s[j + 1])}

\* t is s without its leading and trailing white space
IsTrimOf(t, s) ==
    /\ t = <<>> \/ (~IsSpace(t[1]) /\ ~IsSpace(t[Len(t)]))
    /\ \E i \in 0..Len(s) :
          /\ i + Len(t) <= Len(s)
          /\ \A k \in 1..Len(t) : s[i + k] = t[k]
          /\ \A k \in 1..i : IsSpace(s[k])
          /\ \A k \in (i + Len(t) + 1)..Len(s) : IsSpace(s[k])

\* C10: sanitize removes every semicolon and backslash and trims; it fails
\* exactly when a whole word of the stripped text is a blocklisted keyword in
\* any letter case, and otherwise returns the stripped, trimmed text.
C10_SanitizerResult ==
    sanitized # NoResult =>
        LET kept == SelectSeq(expr, LAMBDA c : c # ";" /\ c # "\\")
            words == {ToLowerCase(SubSeq(kept, w[1], w[2])) : w \in WordRuns(kept)}
        IN  /\ sanitized.threw <=> (words \cap DangerousKeywords # {})
            /\ ~sanitized.threw =>
                  /\ IsTrimOf(sanitized.value, kept)
                  /\ (kept = expr) => IsTrimOf(sanitized.value, expr)

\* a keyword split only by a semicolon is rejected
C10_SplitKeywordRejected ==
    /\ expr = <<"d","r",";","o","p">>
    /\ sanitized # NoResult
    /\ sanitized.threw

\* e is p with every single quote doubled
IsDoubled(e, p) ==
    LET quotesBefore == [i \in 1..(Len(p) + 1) |->
                            Cardinality({j \in 1..(i - 1) : p[j] = "'"})]
    IN  /\ Len(e) = Len(p) + quotesBefore[Len(p) + 1]
        /\ \A i \in 1..Len(p) :
              /\ e[i + quotesBefore[i]] = p[i]
              /\ p[i] = "'" => e[i + quotesBefore[i] + 1] = "'"

\* f is prefix, then the value with its quotes doubled, then suffix
IsQuotedLiteral(f, prefix, value, suffix) ==
    /\ Len(f) >= Len(prefix) + Len(suffix)
    /\ SubSeq(f, 1, Len(prefix)) = prefix
    /\ SubSeq(f, Len(f) - Len(suffix) + 1, Len(f)) = suffix
    /\ IsDoubled(SubSeq(f, Len(prefix) + 1, Len(f) - Len(suffix)), value)

\* a call of the tool was received with an optional limit in 1..1000
ReceivedWithLimit(c, tool) ==
    /\ c.tool = tool
    /\ c.pc # "idle"
    /\ "limit" \in DOMAIN c.args => (c.args.limit >= 1 /\ c.args.limit <= 1000)

\* C11: for every product of 1 to 200 characters, filter_by_product keys the
\* cache and queries upstream with exactly products/any(p:p eq 'E'), E being
\* the product with each single quote doubled; the filter is neither altered
\* nor rejected.
C11_ProductFilterExact ==
    \A r \in Slots :
        (/\ ReceivedWithLimit(calls[r], "filter_by_product")
         /\ Len(calls[r].args.product) >= 1
         /\ Len(calls[r].args.product) <= 200)
        => /\ IsQuotedLiteral(calls[r].cacheKey, ProductPrefix,
                              calls[r].args.product, AnySuffix)
           /\ calls[r].requests = 1
           /\ calls[r].url = Some(calls[r].cacheKey)

\* C12: in filter_by_product, filter_by_release_phase, filter_by_status and
\* filter_by_date, the filter the handler builds holds the caller's value
\* between the quote delimiters with every single quote of the value doubled.
C12_QuotesDoubled ==
    \A r \in Slots :
        LET c == calls[r]
        IN  (c.pc # "idle" /\ c.filter.defined) =>
               CASE c.tool = "filter_by_product" ->
                       IsQuotedLiteral(c.filter.str, ProductPrefix, c.args.product, AnySuffix)
                 [] c.tool = "filter_by_release_phase" ->
                       IsQuotedLiteral(c.filter.str, ReleaseRingPrefix, c.args.phase, AnySuffix)
                 [] c.tool = "filter_by_status" ->
                       IsQuotedLiteral(c.filter.str, StatusPrefix, c.args.status, Quote)
                 [] c.tool = "filter_by_date" ->
                       \E field \in {GaDateField, PreviewDateField} :
                           IsQuotedLiteral(c.filter.str, field \o EqQuote, c.args.date, Quote)
                 [] OTHER -> TRUE

\* C13: when the fetch for `id eq <id>` yields an empty sequence,
\* get_roadmap_item returns an error-flagged not-found result naming the id,
\* unlike the result for an upstream or transport error, and throws nothing;
\* when it yields a non-empty sequence, the first item is returned as a success.
C13_NotFound ==
    \A r \in Slots :
        LET c == calls[r]
        IN  (/\ c.tool = "get_roadmap_item"
             /\ c.pc = "done"
             /\ c.items.kind = "array")
            => /\ c.cacheKey = IdEqPrefix \o c.args.id
               /\ "isError" \in DOMAIN c.result
               /\ IF c.items.elems = <<>>
                  THEN /\ c.result.isError
                       /\ DOMAIN c.result.body = {"message", "id"}
                       /\ c.result.body.message = "No roadmap item found with ID"
                       /\ c.result.body.id = c.args.id
                  ELSE /\ ~c.result.isError
                       /\ c.result.body = c.items.elems[1]

\* the upstream sent an empty collection for id 999999999: not found
C13_NoSuchId ==
    \E r \in Slots :
        /\ calls[r].tool = "get_roadmap_item"
        /\ calls[r].args.id = <<"9","9","9","9","9","9","9","9","9">>
        /\ calls[r].pc = "done"
        /\ calls[r].items = ArrayValue(<<>>)
        /\ calls[r].result.isError
        /\ calls[r].result.body.id = calls[r].args.id

\* the arguments of call c violate the schema its tool declares
OutsideSchema(c) ==
    LET limitOutside == "limit" \in DOMAIN c.args /\ (c.args.limit < 1 \/ c.args.limit > 1000)
    IN  CASE c.tool = "get_roadmap_items" ->
                \/ limitOutside
                \/ "offset" \in DOMAIN c.args /\ c.args.offset < 0
                \/ "filter" \in DOMAIN c.args /\ Len(c.args.filter.str) > 1000
          [] c.tool = "filter_by_product" ->
                \/ limitOutside
                \/ Len(c.args.product) < 1
                \/ Len(c.args.product) > 200
          [] c.tool = "filter_by_release_phase" -> c.args.phase \notin ReleasePhases
          [] c.tool = "filter_by_status" -> c.args.status \notin Statuses
          [] c.tool = "filter_by_date" ->
                "dateType" \in DOMAIN c.args
                    /\ c.args.dateType \notin {"generalAvailability", "preview"}
          [] OTHER -> FALSE

\* call c ended before any filter was built: no lookup, no request, no store
NoWorkDone(c) ==
    /\ c.pc = "done"
    /\ ~c.filter.defined
    /\ c.cacheKey = <<>>
    /\ ~c.hit
    /\ c.requests = 0
    /\ c.items = NoValue
    /\ cache = <<>>

\* C14: a tool call whose arguments violate the declared schema is reported as
\* a validation failure, with no cache lookup, cache write or upstream request.
C14_SchemaFirst ==
    \A r \in Slots :
        (calls[r].pc # "idle" /\ OutsideSchema(calls[r]))
        => /\ NoWorkDone(calls[r])
           /\ calls[r].result.isError
           /\ calls[r].result.body.code = -32602

\* a get_roadmap_items call with a filter of 1001 characters was turned away
C14_LongFilterRefused ==
    \E r \in Slots :
        /\ calls[r].tool = "get_roadmap_items"
        /\ "filter" \in DOMAIN calls[r].args
        /\ Len(calls[r].args.filter.str) = 1001
        /\ calls[r].pc = "done"
        /\ calls[r].result = ValidationFailure

\* d has the form YYYY-MM
IsYearMonth(d) ==
    /\ Len(d) = 7
    /\ d[5] = "-"
    /\ \A i \in {1, 2, 3, 4, 6, 7} : d[i] \in Range(DigitChars)

\* C15: a filter_by_date call whose date is not of the form YYYY-MM is
\* rejected before any filter is built, cache lookup or upstream request made.
C15_DateFormatChecked ==
    \A r \in Slots :
        (/\ calls[r].tool = "filter_by_date"
         /\ calls[r].pc # "idle"
         /\ ~IsYearMonth(calls[r].args.date))
        => /\ NoWorkDone(calls[r])
           /\ calls[r].result.isError

\* the number of items a success body carries
ItemCount(tool, body) ==
    IF tool = "get_roadmap_item" THEN 1 ELSE Len(Elems(body.items))

\* C16: no successful response of any tool carries more than 1000 items.
C16_ResultCap ==
    (handlerResult # NoResult /\ ~handlerResult.isError)
    => ItemCount(handlerCall.tool, handlerResult.body) <= 1000

\* the items a tool slices: the matching ones for search_roadmap, else all fetched
Candidates(tool, args, fetched) ==
    IF tool = "search_roadmap"
    THEN SelectSeq(fetched, LAMBDA item : ItemMatches(item, ToLowerCase(args.keyword)))
    ELSE fetched

\* C17: search_roadmap, filter_by_release_phase, filter_by_status,
\* filter_by_date and filter_roadmap return the first min(limit, n) of their n
\* candidate items in upstream order (none for a limit below 1), never more
\* than limit.
C17_SliceToLimit ==
    LET tool == handlerCall.tool
        args == handlerCall.args
        limit == IF "limit" \in DOMAIN args THEN args.limit
                 ELSE IF tool = "search_roadmap" THEN 20 ELSE 100
    IN  (/\ handlerResult # NoResult
         /\ tool \in {"search_roadmap", "filter_by_release_phase", "filter_by_status",
                      "filter_by_date", "filter_roadmap"}
         /\ ~handlerCall.outcome.threw
         /\ handlerCall.outcome.value.kind = "array")
        => LET cands == Candidates(tool, args, handlerCall.outcome.value.elems)
               count == IF limit < 0 THEN 0
                        ELSE IF limit < Len(cands) THEN limit ELSE Len(cands)
               got == handlerResult.body.items
           IN  /\ ~handlerResult.isError
               /\ got.kind = "array"
               /\ Len(got.elems) = count
               /\ \A i \in 1..count : got.elems[i] = cands[i]

\* a and b are the same character, or the same letter in different case
SameLetter(a, b) ==
    a = b \/ \E j \in DOMAIN UpperChars : {a, b} = {UpperChars[j], LowerChars[j]}

\* text contains kw as a substring when letter case is ignored
ContainsIgnoringCase(text, kw) ==
    \E i \in 0..(Len(text) - Len(kw)) :
        \A k \in 1..Len(kw) : SameLetter(text[i + k], kw[k])

\* C18: search_roadmap fetches the unfiltered collection under the cache key
\* of no filter, and returns in upstream order the first `limit` items whose
\* title or description contains the keyword, letter case ignored; an item
\* with neither title nor description never matches.
C18_Search ==
    \A r \in Slots :
        LET c == calls[r]
            limit == IF "limit" \in DOMAIN c.args THEN c.args.limit ELSE 20
        IN  (c.tool = "search_roadmap" /\ c.pc # "idle")
            => /\ ~c.filter.defined
               /\ c.cacheKey = <<"a","l","l">>
               /\ ~c.url.defined
               /\ (c.pc = "done" /\ c.items.kind = "array") =>
                     LET matches ==
                            SelectSeq(c.items.elems, LAMBDA item :
                                \/ item.title.defined
                                      /\ ContainsIgnoringCase(item.title.str, c.args.keyword)
                                \/ item.description.defined
                                      /\ ContainsIgnoringCase(item.description.str,
                                                              c.args.keyword))
                         count == IF limit < 0 THEN 0
                                  ELSE IF limit < Len(matches) THEN limit ELSE Len(matches)
                     IN  /\ ~c.result.isError
                         /\ c.result.body.items = ArrayValue(SubSeq(matches, 1, count))

\* C19: every tool call issues at most one upstream request, and none on a
\* cache hit or a sanitizer rejection; a request is sent only when the call
\* arrives, and a failed request ends the call at once with an error.
C19_NoRetry ==
    /\ [](\A r \in Slots :
             /\ calls[r].requests <= 1
             /\ calls[r].hit => calls[r].requests = 0
             /\ (/\ calls[r].pc = "done"
                 /\ calls[r].result.isError
                 /\ calls[r].result.body.message = InvalidFilterMessage)
                => calls[r].requests = 0)
    /\ [][\A r \in Slots :
             /\ calls'[r].requests > calls[r].requests => calls[r].pc = "idle"
             /\ (InFlight(r) /\ calls'[r] # calls[r]) =>
                   \/ calls'[r].pc = "done"
                   \/ calls[r].pc = "fetching" /\ calls'[r].pc \in {"reading", "errorText"}
             /\ FetchFailureStep(r) => calls'[r].result.isError]_vars

\* a request failed on the network and its call ended with that one attempt
C19_FailedAfterOneRequest ==
    \E r \in Slots :
        /\ calls[r].pc = "done"
        /\ calls[r].requests = 1
        /\ calls[r].result.isError
        /\ calls[r].result.body.message = "fetch failed"

\* C20: whatever `value` the decoded body of a successful response holds, the
\* fetcher yields a sequence of items (the empty one when `value` is absent or
\* no sequence), the tool call does not fail, and only sequences of items are
\* stored in the cache.
C20_LenientDecoding ==
    /\ \A i \in DOMAIN cache : cache[i].data.kind = "array"
    /\ \A r \in Slots :
          (calls[r].pc = "done" /\ calls[r].items # NoValue)
          => /\ calls[r].items.kind = "array"
             /\ calls[r].tool # "get_roadmap_item" => ~calls[r].result.isError

\* C21: a tool call and a cache entry have the same cache key exactly when the
\* call's request and the request that fetched the entry carry the same $filter
\* parameter, or both none; so a caller's filter shares an entry with the
\* no-filter sentinel only when it is sent without a filter parameter.
C21_KeysIdentifyQueries ==
    \A r \in Slots : \A i \in DOMAIN cache :
        calls[r].cacheKey # <<>> =>
            (calls[r].cacheKey = cache[i].key
                <=> RequestUrl(calls[r].sanitizedFilter) = RequestUrl(cache[i].filter))
\* a step in which the tool call of slot r completes
CompletionStep(r) == calls[r].pc = "done" /\ calls'[r].pc = "idle"

\* a step in which slot r sends a request to the upstream
UpstreamCallStep(r) == calls'[r].requests = calls[r].requests + 1

\* a step in which the upstream call of slot r fails
UpstreamFailureStep(r) == InFlight(r) /\ FetchFailureStep(r)

\* C22: the metrics count, per tool, the completed calls and those of them that
\* returned an error-flagged result, and count the upstream calls made, the
\* cache hits and the failed upstream calls: each such event adds one to its
\* counter and nothing else changes a counter.
C22_MetricsCountOutcomes ==
    [][LET One(b) == IF b THEN 1 ELSE 0
           Count(S) == Cardinality(S)
       IN  /\ \A r \in Slots : CompletionStep(r) =>
                 LET old == ToolMetrics(metrics, calls[r].tool)
                     new == ToolMetrics(metrics', calls[r].tool)
                 IN  /\ new.calls = old.calls + 1
                     /\ new.errors = old.errors + One(calls[r].result.isError)
           /\ metrics'.apiCalls.total = metrics.apiCalls.total
                 + Count({r \in Slots : UpstreamCallStep(r)})
           /\ metrics'.apiCalls.cached = metrics.apiCalls.cached
                 + Count({r \in Slots : LookupStep(r) /\ calls'[r].hit})
           /\ metrics'.apiCalls.failed = metrics.apiCalls.failed
                 + Count({r \in Slots : UpstreamFailureStep(r)})]_vars

\* C23: when the original server accepts a tool call and answers it with a
\* success, the improved server, given the same call and the same upstream
\* answer with a cold cache, sends the same upstream query and returns a success
\* that has every field of the original result with the same value.
C23_BackwardCompatible ==
    LET original == handlerResult
        improved == calls[1]
    IN  (original # NoResult /\ improved.pc = "done" /\ ~original.result.isError) =>
            /\ improved.requests = original.requests
            /\ improved.url = original.url
            /\ ~improved.result.isError
            /\ \A field \in DOMAIN original.result.body :
                  /\ field \in DOMAIN improved.result.body
                  /\ improved.result.body[field] = original.result.body[field]
\* the keys of the cache that the step removes
RemovedKeys == {cache[i].key : i \in DOMAIN cache} \ {cache'[i].key : i \in DOMAIN cache'}

StoredEntry(r) ==
    [key |-> calls[r].cacheKey, data |-> calls'[r].items, timestamp |-> now,
     filter |-> calls[r].sanitizedFilter]

\* C25: whatever the interleaving of the tool calls, every state has at most one
\* entry per key and at most 50 entries, and every entry is, whole, the key,
\* items and time of one fetch: a step only adds entries that a fetch returning
\* in that step stores complete.
C25_AtomicStore ==
    /\ [](/\ Len(cache) <= 50
          /\ Cardinality({cache[i].key : i \in DOMAIN cache}) = Len(cache))
    /\ [][cache' # cache =>
             \A i \in DOMAIN cache' :
                 \/ \E j \in DOMAIN cache : cache[j] = cache'[i]
                 \/ \E r \in Slots : FetchReturnStep(r) /\ cache'[i] = StoredEntry(r)]_vars

\* two fetches of different keys were in flight together and both have stored
\* into the full cache
C25_TwoStoresAtCapacity ==
    /\ Len(cache) = 50
    /\ \E r, q \in Slots :
          /\ calls[r].pc = "done" /\ calls[q].pc = "done"
          /\ ~calls[r].hit /\ ~calls[q].hit
          /\ calls[r].cacheKey = cache[49].key
          /\ calls[q].cacheKey = cache[50].key
          /\ cache[49].key = KeyOfId(52)
\* slot q has a request in flight for the cache key k
FetchingKey(q, k) == InFlight(q) /\ calls[q].cacheKey = k

\* C26: a tool call that finds no valid entry for its key sends its own request,
\* also while another call's request for the same key is in flight; when its
\* response is processed it returns that response's items, the entry of the key
\* becomes those items at that time, whatever it held and whenever the request
\* was issued, and the other calls keep what they have.
C26_LastResponseWins ==
    [][\A r \in Slots :
          /\ (/\ LookupStep(r)
              /\ \E q \in Slots : FetchingKey(q, calls'[r].cacheKey)
              /\ \A i \in DOMAIN cache :
                    cache[i].key = calls'[r].cacheKey =>
                        now - cache[i].timestamp >= 300000) =>
                /\ calls'[r].pc = "fetching"
                /\ calls'[r].requests = 1
                /\ \A q \in Slots \ {r} : calls'[q] = calls[q]
          /\ FetchReturnStep(r) =>
                /\ \E i \in DOMAIN cache' : cache'[i] = StoredEntry(r)
                /\ calls'[r].result =
                      HandlerResult(calls[r].tool, calls[r].args, Returned(calls'[r].items))
                /\ \A q \in Slots \ {r} : calls'[q] = calls[q]]_vars

\* of two calls with the same key, the one issued first got its response last:
\* each has its own items and the entry holds those of the call issued first
C26_FirstIssuedStoredLast ==
    \E r, q \in Slots : \E i \in DOMAIN cache :
        /\ calls[r].pc = "done" /\ calls[q].pc = "done"
        /\ ~calls[r].hit /\ ~calls[q].hit
        /\ calls[r].cacheKey = calls[q].cacheKey
        /\ calls[r].issuedAt < calls[q].issuedAt
        /\ calls[r].items # calls[q].items
        /\ calls[r].items # NoValue /\ calls[q].items # NoValue
        /\ cache[i].key = calls[r].cacheKey
        /\ cache[i].data = calls[r].items
\* the step is the cache-clear command
ClearStep ==
    /\ cache' = <<>>
    /\ reply' = [message |-> "Cache cleared", previousSize |-> Len(cache)]

\* C27: the cache changes only in a step in which a fetch that missed stores its
\* result, or in a clear; a lookup (a hit, or a miss on an absent or expired
\* entry), a failure, a return and a health, metrics or statistics query leave
\* the cache as it is, expired entries included.
C27_CacheFrame ==
    [][/\ cache' # cache =>
             \/ ClearStep
             \/ \E r \in Slots : FetchReturnStep(r) /\ ~calls[r].hit
       /\ (\E r \in Slots : LookupStep(r) \/ FetchFailureStep(r) \/ CompletionStep(r)) =>
             cache' = cache
       /\ (reply' # reply /\ ~ClearStep) => cache' = cache]_vars

\* five minutes after the store a lookup has missed the entry and the statistics
\* route has then reported it, with its age, as the one entry of the cache
C27_ExpiredEntryStays ==
    /\ Len(cache) = 1
    /\ now - cache[1].timestamp = 300000
    /\ calls[1].pc = "fetching"
    /\ calls[1].cacheKey = cache[1].key
    /\ "entries" \in DOMAIN reply
    /\ reply.size = 1
    /\ reply.entries[1].ageMinutes = 5
\* C28: two tool calls of the same tool with the same arguments that were both
\* answered from the entry of their key have the same result, whatever calls of
\* this and of other tools were answered from that entry between them.
C28_SameEntrySameResult ==
    \A r, q \in Slots :
        (/\ calls[r].pc = "done" /\ calls[q].pc = "done"
         /\ calls[r].hit /\ calls[q].hit
         /\ calls[r].tool = calls[q].tool
         /\ calls[r].args = calls[q].args
         /\ calls[r].cacheKey = calls[q].cacheKey)
        => calls[r].result = calls[q].result

\* a page of the list was read twice from the entry, with a search answered from
\* the same entry in between
C28_ReadTwiceAroundSearch ==
    /\ requestCounter = 4
    /\ ToolMetrics(metrics, "search_roadmap").calls = 1
    /\ \E r, q \in Slots :
          /\ r # q
          /\ calls[r].pc = "done" /\ calls[q].pc = "done"
          /\ calls[r].hit /\ calls[q].hit
          /\ calls[r].tool = "get_roadmap_items"
          /\ calls[r].args = [limit |-> 1, offset |-> 1]
          /\ calls[q].tool = "get_roadmap_items"
          /\ calls[q].args = calls[r].args
          /\ calls[r].result.body.returned = 1
\* the number of pages of `limit` items that hold `total` items
PagesOf(total, limit) == IF total = 0 THEN 1 ELSE (total + limit - 1) \div limit

\* C29: the paging walk makes at most ceil(total / limit) calls (one when there
\* are no items), the answer to the last of them says that there is no more,
\* and the pages put together are then the fetched sequence.
C29_PagingWalk ==
    LET pages == PagesOf(Len(walk.fetched), walk.limit)
    IN  /\ walk.calls <= pages
        /\ walk.done <=> walk.calls = pages
        /\ walk.done => walk.pages = walk.fetched
        /\ ~walk.done => walk.pages = SubSeq(walk.fetched, 1, walk.calls * walk.limit)

\* 23 items read in pages of 10: three calls
C29_ThreePagesOfTwentyThree ==
    /\ walk.done
    /\ Len(walk.fetched) = 23
    /\ walk.limit = 10
    /\ walk.calls = 3
    /\ Len(walk.pages) = 23
    /\ handlerResult.body.returned = 3
\* the reply of the cache-clear command
IsClearReply(m) == "previousSize" \in DOMAIN m

\* C30: the clear replies with the number of entries held before it, leaves the
\* cache empty and leaves every tool call, in flight or not, as it is; a fetch in
\* flight returns its items and stores its entry whether or not the cache was
\* cleared since its request was sent.
C30_ClearLeavesFetches ==
    [][/\ ((IsClearReply(reply') /\ reply' # reply) \/ (cache # <<>> /\ cache' = <<>>)) =>
             /\ IsClearReply(reply')
             /\ reply'.previousSize = Len(cache)
             /\ cache' = <<>>
             /\ calls' = calls
       /\ \A r \in Slots :
             (calls[r].pc = "reading" /\ calls'[r].pc = "done" /\ ~FetchFailureStep(r)) =>
                 /\ calls'[r].items # NoValue
                 /\ \E i \in DOMAIN cache' : cache'[i] = StoredEntry(r)]_vars

\* the last operations reply is that of a clear which found one entry, and the
\* cache holds the entry of the second call, whose request was sent when the
\* first call's entry had expired
C30_RefilledAfterClear ==
    /\ IsClearReply(reply)
    /\ reply.previousSize = 1
    /\ requestCounter = 2
    /\ Len(cache) = 1
    /\ calls[1].pc = "done"
    /\ ~calls[1].hit
    /\ calls[1].issuedAt = 300000
    /\ cache[1].data = calls[1].items
    /\ cache[1].timestamp = 300000
====
